---- MODULE Spec2Model ----
(***************************************************************************)
(* Model of project/pipeline.py: the ETL run of main() over the collisions *)
(* table, the population table and the street reference file.             *)
(*                                                                         *)
(* Tables are sequences of rows; a row is a function from column names to  *)
(* the text of the cell in the file.  pd.read_csv reads every text of its  *)
(* list of missing values as the missing cell, written "<NA>" here, and    *)
(* gives every column a dtype from the texts it holds: a column of numbers *)
(* is compared and converted by value, a column of True/False texts holds  *)
(* booleans, every other column keeps its texts.  String conversions       *)
(* (strip, upper, title, substring tests, numeric and date parsing) are    *)
(* computed character by character.                                        *)
(*                                                                         *)
(* Input domain: the borough and crash_date columns of the collisions and  *)
(* the borough column of the population are read with the object dtype or  *)
(* hold no value at all, the numbers written in a table are in the range   *)
(* NumericModelled describes, and no two columns of the population table   *)
(* get the same name by normalisation.                                     *)
(***************************************************************************)
EXTENDS Integers, Sequences, FiniteSets, TLC

VARIABLES
    pc,                  \* position of main()
    remote_collisions,   \* rows served at COLLISION_URL
    remote_population,   \* rows served at POPULATION_URL
    remote_streets,      \* entries of the ZIP archive served at STREET_ZIP_URL
    collisions_data,     \* main: collisions_data
    street_mapping,      \* main: street_mapping
    cleaned_collisions,  \* main: cleaned_collisions
    population_data,     \* main: population_data
    cleaned_population,  \* main: cleaned_population
    db_collisions,       \* collisions.db, table collisions
    db_population,       \* population.db, table population
    db_joined,           \* combined_data.db, table joined_data
    snapshots,           \* the three tables at the start of every run so far
    files,               \* the files under DATA_DIR
    tasks,               \* parallel_download: the calls given to the executor
    error                \* the exception that ended main(), if any

vars == <<pc, remote_collisions, remote_population, remote_streets,
          collisions_data, street_mapping, cleaned_collisions,
          population_data, cleaned_population,
          db_collisions, db_population, db_joined, snapshots, files, tasks, error>>

\* ---------------------------------------------------------------------
\* Bounds of the model
\* ---------------------------------------------------------------------
MaxRows == 3          \* rows of a collisions table varying in date and time
MaxCountRows == 1     \* rows of a collisions table varying in its counts
MaxBoroughRows == 2   \* rows of a collisions table varying in borough and streets
MaxPopRows == 2       \* rows of a population table
MaxEntries == 2       \* entries of the ZIP archive
MaxRuns == 2          \* runs of main() in sequence
MaxCountDigits == 9   \* digits of a count before its decimal point
MaxMantissaDigits == 15   \* digits written in the mantissa of a count

\* ---------------------------------------------------------------------
\* Text primitives (Python str methods used by the pipeline)
\* ---------------------------------------------------------------------
NaN == "<NA>"

LowerLetters == "abcdefghijklmnopqrstuvwxyz"
UpperLetters == "ABCDEFGHIJKLMNOPQRSTUVWXYZ"
Digits == "0123456789"
\* the characters of the model in code point order
CodePoints == " '-.0123456789:<>ABCDEFGHIJKLMNOPQRSTUVWXYZ_abcdefghijklmnopqrstuvwxyz"

Char(s, i) == SubSeq(s, i, i)

InStr(c, s) == \E i \in 1..Len(s) : Char(s, i) = c

IndexOf(c, s) == CHOOSE i \in 1..Len(s) : Char(s, i) = c

\* the upper-case letter of every lower-case letter
UpperOf ==
    [c \in {Char(LowerLetters, i) : i \in 1..Len(LowerLetters)} |->
        Char(UpperLetters, IndexOf(c, LowerLetters))]

\* the lower-case letter of every upper-case letter
LowerOf ==
    [c \in {Char(UpperLetters, i) : i \in 1..Len(UpperLetters)} |->
        Char(LowerLetters, IndexOf(c, UpperLetters))]

UpperChar(c) == IF c \in DOMAIN UpperOf THEN UpperOf[c] ELSE c

LowerChar(c) == IF c \in DOMAIN LowerOf THEN LowerOf[c] ELSE c

IsCased(c) == c \in DOMAIN UpperOf \/ c \in DOMAIN LowerOf

RECURSIVE StrUpper(_)
StrUpper(s) == IF Len(s) = 0 THEN "" ELSE UpperChar(Head(s)) \o StrUpper(Tail(s))

RECURSIVE StrLower(_)
StrLower(s) == IF Len(s) = 0 THEN "" ELSE LowerChar(Head(s)) \o StrLower(Tail(s))

RECURSIVE LStrip(_)
LStrip(s) == IF Len(s) > 0 /\ Head(s) = " " THEN LStrip(Tail(s)) ELSE s

RECURSIVE RStrip(_)
RStrip(s) == IF Len(s) > 0 /\ Char(s, Len(s)) = " " THEN RStrip(SubSeq(s, 1, Len(s) - 1)) ELSE s

StrStrip(s) == RStrip(LStrip(s))

\* str.title(): a cased character is upper-cased when it follows an uncased
\* one (or starts the string) and lower-cased otherwise
RECURSIVE TitleFrom(_, _)
TitleFrom(s, prevCased) ==
    IF Len(s) = 0 THEN ""
    ELSE (IF prevCased THEN LowerChar(Head(s)) ELSE UpperChar(Head(s)))
         \o TitleFrom(Tail(s), IsCased(Head(s)))

StrTitle(s) == TitleFrom(s, FALSE)

\* Python's  sub in s
StrContains(s, sub) == \E i \in 1..(Len(s) - Len(sub) + 1) : SubSeq(s, i, i + Len(sub) - 1) = sub

\* Python's  s.endswith(suffix)
StrEndsWith(s, suffix) ==
    Len(suffix) <= Len(s) /\ SubSeq(s, Len(s) - Len(suffix) + 1, Len(s)) = suffix

\* Python's  a < b  on str
RECURSIVE StrLess(_, _)
StrLess(a, b) ==
    IF Len(b) = 0 THEN FALSE
    ELSE IF Len(a) = 0 THEN TRUE
    ELSE IF Head(a) = Head(b) THEN StrLess(Tail(a), Tail(b))
    ELSE IndexOf(Head(a), CodePoints) < IndexOf(Head(b), CodePoints)

\* Series.str.<method>() leaves a missing value missing
StrMethodTitle(v) == IF v = NaN THEN NaN ELSE StrTitle(v)
StrMethodStripUpper(v) == IF v = NaN THEN NaN ELSE StrUpper(StrStrip(v))

IsDigits(s) == Len(s) > 0 /\ \A i \in 1..Len(s) : InStr(Char(s, i), Digits)

RECURSIVE ParseNat(_)
ParseNat(s) == IF Len(s) = 0 THEN 0
               ELSE 10 * ParseNat(SubSeq(s, 1, Len(s) - 1)) + (IndexOf(Char(s, Len(s)), Digits) - 1)

\* ---------------------------------------------------------------------
\* Table primitives (pandas operations used by the pipeline)
\* ---------------------------------------------------------------------
\* the rows of data at the positions in keepIdx, in their order
RECURSIVE PickRows(_, _, _)
PickRows(data, keepIdx, i) ==
    IF i = 0 THEN <<>>
    ELSE IF i \in keepIdx THEN Append(PickRows(data, keepIdx, i - 1), data[i])
    ELSE PickRows(data, keepIdx, i - 1)

SelectRows(data, keepIdx) == PickRows(data, keepIdx, Len(data))

\* DataFrame[cols].sum(axis=1) on one row of integer cells
RECURSIVE RowSum(_, _)
RowSum(row, cols) ==
    IF cols = {} THEN 0
    ELSE LET c == CHOOSE x \in cols : TRUE IN row[c] + RowSum(row, cols \ {c})

\* DataFrame.drop(columns=..., errors='ignore') on one row
DropColumns(row, cols) == [c \in (DOMAIN row) \ cols |-> row[c]]

\* DataFrame.rename(columns={old: new}) on one row
RenameColumn(row, old, new) ==
    IF old \notin DOMAIN row THEN row
    ELSE [c \in ((DOMAIN row) \ {old}) \cup {new} |-> IF c = new THEN row[old] ELSE row[c]]

\* row with column col set to value (added when absent)
SetColumn(row, col, value) ==
    [c \in (DOMAIN row) \cup {col} |-> IF c = col THEN value ELSE row[c]]

\* ---------------------------------------------------------------------
\* Parsing of cell texts
\* ---------------------------------------------------------------------
\* the text with a leading sign removed
Unsigned(s) == IF Len(s) > 0 /\ Head(s) \in {"-", "+"} THEN Tail(s) ELSE s

\* the digits with their leading zeros removed
RECURSIVE LStripZeros(_)
LStripZeros(d) == IF Len(d) > 0 /\ Head(d) = "0" THEN LStripZeros(Tail(d)) ELSE d

\* k zeros
RECURSIVE Zeros(_)
Zeros(k) == IF k <= 0 THEN "" ELSE "0" \o Zeros(k - 1)

\* the position of the first character of t that is in chars, Len(t) + 1
\* when t has none
FirstOf(chars, t) ==
    IF \E i \in 1..Len(t) : Char(t, i) \in chars
    THEN CHOOSE i \in 1..Len(t) :
             /\ Char(t, i) \in chars
             /\ \A j \in 1..(i - 1) : Char(t, j) \notin chars
    ELSE Len(t) + 1

\* what the parser reads from the text: it skips white space before the
\* sign and after the last digit, and takes sign, digits and decimal point
\* before the first e or E and the exponent after it.
\*   exponent_text    the digits written after the e and its sign
\*   exponent_digits  the digits of the written exponent, leading zeros off
\*   exponent         the power of ten the digits of the mantissa, read as
\*                    an integer, are multiplied by; the parser treats
\*                    every written exponent beyond 616 in size alike, 1000
\*                    stands for those of more than 3 digits
\*   significant      the digits of the mantissa from the first non-zero on
\*   decimal_exponent the number of digits of the value before its point
NumericParts(s) ==
    LET Size(digits) ==
            IF Len(digits) > 3 THEN 1000
            ELSE IF IsDigits(digits) THEN ParseNat(digits) ELSE 0
        Written(exponent) ==
            IF Len(exponent) > 0 /\ Head(exponent) = "-"
            THEN 0 - Size(LStripZeros(Unsigned(exponent)))
            ELSE Size(LStripZeros(Unsigned(exponent)))
        Fields(negative, int_part, frac_part, has_exponent, exponent, written) ==
            [negative |-> negative,
             int_part |-> int_part,
             frac_part |-> frac_part,
             has_exponent |-> has_exponent,
             exponent_text |-> Unsigned(exponent),
             exponent_digits |-> LStripZeros(Unsigned(exponent)),
             exponent |-> written - Len(frac_part),
             significant |-> LStripZeros(int_part \o frac_part),
             decimal_exponent |->
                 Len(LStripZeros(int_part \o frac_part)) + written - Len(frac_part)]
        Mantissa(negative, body, has_exponent, exponent) ==
            Fields(negative,
                   SubSeq(body, 1, FirstOf({"."}, body) - 1),
                   SubSeq(body, FirstOf({"."}, body) + 1, Len(body)),
                   has_exponent, exponent, Written(exponent))
        Split(t, at) ==
            Mantissa(at > 1 /\ Head(t) = "-", Unsigned(SubSeq(t, 1, at - 1)),
                     at <= Len(t), SubSeq(t, at + 1, Len(t)))
    IN Split(StrStrip(s), FirstOf({"e", "E"}, StrStrip(s)))

\* inf and infinity in any case, with or without a sign, and no white
\* space: the parsed number is inf or -inf, and astype(int) raises on it
IsInfinityText(s) == StrLower(Unsigned(s)) \in {"inf", "infinity"}

\* the parts p are those of a text of the form
\* [sign] digits [. digits] [e [sign] digits] with a digit in the mantissa;
\* the parser reads at most 17 digits of an exponent, leading zeros
\* included, and a digit after them is text it cannot read
NumericSyntax(p) ==
    /\ p.int_part = "" \/ IsDigits(p.int_part)
    /\ p.frac_part = "" \/ IsDigits(p.frac_part)
    /\ p.int_part # "" \/ p.frac_part # ""
    /\ p.has_exponent => IsDigits(p.exponent_text) /\ Len(p.exponent_text) <= 17

\* the parser gives a finite number for the parts p: it gives up on an
\* exponent above 308 and on a value above the largest double,
\* 1.7976931348623157e308
ParsesFinite(p) ==
    /\ NumericSyntax(p)
    /\ p.exponent <= 308
    /\ ~ /\ p.significant # ""
         /\ \/ p.decimal_exponent > 309
            \/ /\ p.decimal_exponent = 309
               /\ StrLess("179769313486231",
                          SubSeq(p.significant \o Zeros(15 - Len(p.significant)), 1, 15))

\* pd.to_numeric(errors='coerce') gives a number (not NaN) for this text
NumericParses(s) ==
    \/ IsInfinityText(s)
    \/ s # NaN /\ ParsesFinite(NumericParts(s))

\* the text is one whose conversion is computed here as the code
\* computes it: an exponent the parser's int can hold, a mantissa the
\* double holds exactly, and for a number a power of ten the parser
\* scales by exactly (up to 22) and a value of at most MaxCountDigits
\* digits. Two such texts give the same double exactly when they write
\* the same decimal number
NumericModelled(s) ==
    LET Modelled(p) ==
            \/ ~NumericSyntax(p)
            \/ /\ Len(p.exponent_digits) <= MaxCountDigits
               /\ Len(p.int_part \o p.frac_part) <= MaxMantissaDigits
               /\ \/ ~ParsesFinite(p)
                  \/ /\ p.decimal_exponent <= MaxCountDigits
                     /\ p.exponent \in (0 - 22)..22
    IN \/ s = NaN
       \/ IsInfinityText(s)
       \/ Modelled(NumericParts(s))

\* the texts the parser reads as a boolean: true and false in any case
IsBoolText(s) == s # NaN /\ StrLower(s) \in {"true", "false"}

\* the texts pd.read_csv reads as a missing value
NaValues ==
    {"", "#N/A", "#N/A N/A", "#NA", "-1.#IND", "-1.#QNAN", "-NaN", "-nan", "1.#IND",
     "1.#QNAN", "<NA>", "N/A", "NA", "NULL", "NaN", "None", "n/a", "nan", "null"}

\* the rows pd.read_csv returns for the rows of a file: a text of
\* NaValues is a missing cell
ReadCsvRows(rows) ==
    [i \in 1..Len(rows) |->
        [c \in DOMAIN rows[i] |-> IF rows[i][c] \in NaValues THEN NaN ELSE rows[i][c]]]

\* the dtype pd.read_csv gives column c of the rows it read: a number
\* type when every cell is a number or missing, bool when every cell is a
\* boolean or missing (with a missing cell the column holds the objects
\* True, False and NaN), object otherwise and for a table without rows
ColumnDtype(rows, c) ==
    IF Len(rows) = 0 THEN "object"
    ELSE IF \A i \in 1..Len(rows) : rows[i][c] = NaN \/ NumericParses(rows[i][c])
    THEN "number"
    ELSE IF \A i \in 1..Len(rows) : rows[i][c] = NaN \/ IsBoolText(rows[i][c])
    THEN "bool"
    ELSE "object"

\* two cells of a column of the given dtype hold the same value: missing
\* equals missing, numbers compare by value (2 and 2.0, 7 and 07, 0 and
\* -0), booleans whatever their case, texts character by character
SameValue(dtype, a, b) ==
    LET SameNumber(p, q) ==
            IF p.significant = "" \/ q.significant = ""
            THEN p.significant = q.significant
            ELSE /\ p.negative = q.negative
                 /\ p.decimal_exponent = q.decimal_exponent
                 /\ p.significant \o Zeros(Len(q.significant) - Len(p.significant))
                       = q.significant \o Zeros(Len(p.significant) - Len(q.significant))
    IN \/ a = b
       \/ /\ a # NaN
          /\ b # NaN
          /\ CASE dtype = "number" ->
                     IF IsInfinityText(a) \/ IsInfinityText(b)
                     THEN /\ IsInfinityText(a)
                          /\ IsInfinityText(b)
                          /\ (Head(a) = "-") = (Head(b) = "-")
                     ELSE SameNumber(NumericParts(a), NumericParts(b))
               [] dtype = "bool" -> StrLower(a) = StrLower(b)
               [] OTHER -> FALSE

\* rows i and j of the table hold the same value in every column
SameRow(data, i, j) ==
    \A c \in DOMAIN data[i] : SameValue(ColumnDtype(data, c), data[i][c], data[j][c])

\* variant of DropDuplicates: the duplicates are kept
DropDuplicatesKeepAll(data) == data

\* DataFrame.drop_duplicates(): keep the first of every group of equal rows
DropDuplicates(data) ==
    SelectRows(data, {i \in 1..Len(data) : \A j \in 1..(i - 1) : ~SameRow(data, j, i)})

\* pd.to_numeric(col, errors='coerce').fillna(0).astype(int) on a cell
\* that is not inf, in a column that is not of booleans: the number
\* truncated toward zero (the digits of the value before its decimal
\* point), 0 for a missing or unparseable cell
ToNumericInt(s) ==
    LET Whole(digits, n) ==
            IF n <= 0 THEN 0
            ELSE IF n <= Len(digits) THEN ParseNat(SubSeq(digits, 1, n))
            ELSE ParseNat(digits \o Zeros(n - Len(digits)))
        Truncated(p) ==
            IF ~ParsesFinite(p) THEN 0
            ELSE IF p.negative THEN 0 - Whole(p.significant, p.decimal_exponent)
            ELSE Whole(p.significant, p.decimal_exponent)
    IN IF s = NaN THEN 0 ELSE Truncated(NumericParts(s))

DaysInMonth(y, m) ==
    IF m = 2 THEN (IF (y % 4 = 0 /\ y % 100 # 0) \/ y % 400 = 0 THEN 29 ELSE 28)
    ELSE IF m \in {4, 6, 9, 11} THEN 30 ELSE 31

\* pd.to_datetime(errors='coerce') gives a date (not NaT) for this text;
\* the texts of the model are ISO dates YYYY-MM-DD or not dates at all.
\* The day at 00:00 has to be a datetime64[ns] value: the nanosecond
\* range runs from 1677-09-21 00:12:43 to 2262-04-11 23:47:16
DateParses(s) ==
    /\ s # NaN
    /\ Len(s) = 10
    /\ IsDigits(SubSeq(s, 1, 4)) /\ Char(s, 5) = "-"
    /\ IsDigits(SubSeq(s, 6, 7)) /\ Char(s, 8) = "-"
    /\ IsDigits(SubSeq(s, 9, 10))
    /\ LET y == ParseNat(SubSeq(s, 1, 4))
           m == ParseNat(SubSeq(s, 6, 7))
           d == ParseNat(SubSeq(s, 9, 10))
       IN /\ m \in 1..12
          /\ d \in 1..DaysInMonth(y, m)
          /\ y > 1677 \/ (y = 1677 /\ (m > 9 \/ (m = 9 /\ d >= 22)))
          /\ y < 2262 \/ (y = 2262 /\ (m < 4 \/ (m = 4 /\ d <= 11)))

\* pd.to_datetime(format='%H:%M', errors='coerce') gives a time for this text
TimeParses(s) ==
    /\ s # NaN
    /\ InStr(":", s)
    /\ LET h == SubSeq(s, 1, IndexOf(":", s) - 1)
           m == SubSeq(s, IndexOf(":", s) + 1, Len(s))
       IN /\ IsDigits(h) /\ Len(h) <= 2 /\ ParseNat(h) < 24
          /\ IsDigits(m) /\ Len(m) <= 2 /\ ParseNat(m) < 60

\* ---------------------------------------------------------------------
\* clean_collisions_data
\* ---------------------------------------------------------------------
UnwantedColumns(columns) ==
    {"crash_date", "crash_time", "latitude", "longitude", "location", "collision_id"}
    \cup {col \in columns : StrContains(col, "vehicle") /\ col # "vehicle_type_code1"}

FatalityColumns(columns) == {col \in columns : StrContains(StrLower(col), "killed")}

InjuryColumns(columns) == {col \in columns : StrContains(StrLower(col), "injured")}

\* fillna("Unknown") then .str.title() on the borough cell
CleanBorough(v) == StrTitle(IF v = NaN THEN "Unknown" ELSE v)

\* astype(int) raises on the column: a cell of the rows is inf or -inf
\* after to_numeric
NonFiniteIn(rows, cols) ==
    \E i \in 1..Len(rows) : \E c \in cols : IsInfinityText(rows[i][c])

\* the columns cols of row converted by to_numeric/fillna/astype;
\* bool_columns are the columns read as booleans, where True becomes 1
\* and False and a missing cell 0
CoerceColumns(row, cols, bool_columns) ==
    [c \in DOMAIN row |->
        IF c \notin cols THEN row[c]
        ELSE IF c \in bool_columns
        THEN (IF row[c] # NaN /\ StrLower(row[c]) = "true" THEN 1 ELSE 0)
        ELSE ToNumericInt(row[c])]

\* variant of CleanCollisionRow: total_injuries summed over the fatality columns
CleanCollisionRowFatalitiesTwice(row, unwanted, fatality_columns, injury_columns, bool_columns) ==
    LET r1 == SetColumn(row, "borough", CleanBorough(row["borough"]))
        r2 == DropColumns(r1, unwanted)
        r3 == RenameColumn(r2, "vehicle_type_code1", "vehicle_type")
        r4 == CoerceColumns(r3, fatality_columns, bool_columns)
        r5 == SetColumn(r4, "total_fatalities", RowSum(r4, fatality_columns))
        r6 == CoerceColumns(r5, injury_columns \ fatality_columns, bool_columns)
        r7 == SetColumn(r6, "total_injuries", RowSum(r6, fatality_columns))
    IN r7

\* one surviving row through the column steps of clean_collisions_data,
\* given the column lists the function computes for the table and the
\* columns the table holds as booleans
CleanCollisionRow(row, unwanted, fatality_columns, injury_columns, bool_columns) ==
    LET r1 == SetColumn(row, "borough", CleanBorough(row["borough"]))
        r2 == DropColumns(r1, unwanted)
        r3 == RenameColumn(r2, "vehicle_type_code1", "vehicle_type")
        r4 == CoerceColumns(r3, fatality_columns, bool_columns)
        r5 == SetColumn(r4, "total_fatalities", RowSum(r4, fatality_columns))
        r6 == CoerceColumns(r5, injury_columns \ fatality_columns, bool_columns)
        r7 == SetColumn(r6, "total_injuries", RowSum(r6, injury_columns))
    IN r7

\* variant of ValidDateRows: rows without a time are dropped too
ValidDateRowsWithTime(rows) ==
    LET Dated(data) ==
            SelectRows(data, {i \in 1..Len(data) :
                                 DateParses(data[i]["crash_date"]) /\ TimeParses(data[i]["crash_time"])})
    IN Dated(DropDuplicates(rows))

\* the surviving rows: duplicates dropped first, then rows without a date
ValidDateRows(rows) ==
    LET Dated(data) == SelectRows(data, {i \in 1..Len(data) : DateParses(data[i]["crash_date"])})
    IN Dated(DropDuplicates(rows))

\* the table is one pd.read_csv returns and its cleaning is computed here
\* as the code computes it: it has the columns the pipeline reads by
\* name, every count and every cell of a column of numbers is a text
\* whose conversion is modelled, and borough and crash_date have the
\* object dtype or hold no value at all
CollisionsModelled(data) ==
    LET Modelled(c, dtype) ==
            /\ (\/ c \in FatalityColumns(data.columns) \cup InjuryColumns(data.columns)
                \/ dtype = "number")
                   => \A i \in 1..Len(data.rows) : NumericModelled(data.rows[i][c])
            /\ c \in {"borough", "crash_date"}
                   => \/ dtype = "object"
                      \/ \A i \in 1..Len(data.rows) : data.rows[i][c] = NaN
    IN /\ {"borough", "crash_date", "crash_time",
           "on_street_name", "off_street_name", "cross_street_name"} \subseteq data.columns
       /\ data.rows = ReadCsvRows(data.rows)
       /\ \A c \in data.columns : Modelled(c, ColumnDtype(data.rows, c))

\* clean_collisions_data(data): the cleaned table, or the error raised.
\* The table keeps for every column the dtype it has in the DataFrame:
\* the counts and totals are integers, borough is of texts after fillna
\* and title, every other column has the dtype pd.read_csv gave it from
\* all the rows of the file, where a column of booleans with a missing
\* cell is an object column that holds booleans ("bool_object")
clean_collisions_data(data) ==
    LET unwanted == UnwantedColumns(data.columns)
        cols2 == data.columns \ unwanted
        cols3 == IF "vehicle_type_code1" \in cols2
                 THEN (cols2 \ {"vehicle_type_code1"}) \cup {"vehicle_type"}
                 ELSE cols2
        fatality_columns == FatalityColumns(cols3)
        injury_columns == InjuryColumns(cols3 \cup {"total_fatalities"})
        Kept(c, dtype) ==
            IF dtype = "bool" /\ \E i \in 1..Len(data.rows) : data.rows[i][c] = NaN
            THEN "bool_object" ELSE dtype
        Cleaned(kept, bool_columns) ==
            IF fatality_columns = {}
            THEN [ok |-> FALSE, error |-> "KeyError: No columns with 'killed' found in the dataset."]
            ELSE IF NonFiniteIn(kept, fatality_columns)
            THEN [ok |-> FALSE, error |-> "IntCastingNaNError: Cannot convert non-finite values (NA or inf) to integer"]
            ELSE IF injury_columns = {}
            THEN [ok |-> FALSE, error |-> "KeyError: No columns with 'injured' found in the dataset."]
            ELSE IF NonFiniteIn(kept, injury_columns \ fatality_columns)
            THEN [ok |-> FALSE, error |-> "IntCastingNaNError: Cannot convert non-finite values (NA or inf) to integer"]
            ELSE [ok |-> TRUE,
                  columns |-> cols3 \cup {"total_fatalities", "total_injuries"},
                  rows |-> [i \in 1..Len(kept) |->
                              CleanCollisionRow(kept[i], unwanted, fatality_columns,
                                                injury_columns, bool_columns)],
                  dtypes |-> [c \in cols3 \cup {"total_fatalities", "total_injuries"} |->
                                IF c \in fatality_columns \cup injury_columns
                                          \cup {"total_fatalities", "total_injuries"}
                                THEN "number"
                                ELSE IF c = "borough" THEN "object"
                                ELSE IF c = "vehicle_type"
                                THEN Kept("vehicle_type_code1",
                                          ColumnDtype(data.rows, "vehicle_type_code1"))
                                ELSE Kept(c, ColumnDtype(data.rows, c))]]
    IN Cleaned(ValidDateRows(data.rows),
               {c \in data.columns : ColumnDtype(data.rows, c) = "bool"})

\* ---------------------------------------------------------------------
\* clean_population_data
\* ---------------------------------------------------------------------
\* data.columns.str.lower().str.strip()
NormalizeColumnName(col) == StrStrip(StrLower(col))

\* the original name of every normalised column name
OriginalColumn(columns) ==
    [c \in {NormalizeColumnName(k) : k \in columns} |->
        CHOOSE k \in columns : NormalizeColumnName(k) = c]

\* the strings of S in ascending order (the key order of groupby and merge)
RECURSIVE SortedStrings(_)
SortedStrings(S) ==
    IF S = {} THEN <<>>
    ELSE LET least == CHOOSE x \in S : \A y \in S \ {x} : StrLess(x, y)
         IN <<least>> \o SortedStrings(S \ {least})

\* sum of the integer column col over the rows at the positions in idx
RECURSIVE ColumnSum(_, _, _)
ColumnSum(rows, col, idx) ==
    IF idx = {} THEN 0
    ELSE LET i == CHOOSE x \in idx : TRUE IN rows[i][col] + ColumnSum(rows, col, idx \ {i})

\* data.groupby('borough', as_index=False)['population'].sum(), the sum
\* renamed to total_population: one row per non-missing key, keys ascending
GroupPopulation(rows) ==
    LET keys == SortedStrings({rows[i]["borough"] : i \in 1..Len(rows)} \ {NaN})
    IN [k \in 1..Len(keys) |->
          [borough |-> keys[k],
           total_population |->
               ColumnSum(rows, "population", {i \in 1..Len(rows) : rows[i]["borough"] = keys[k]})]]

\* variant of AddUnknownRow: no default row is appended
AddUnknownRowNever(rows) == rows

\* the default row for 'Unknown' is appended when no group has that key
AddUnknownRow(rows) ==
    IF \E i \in 1..Len(rows) : rows[i]["borough"] = "Unknown" THEN rows
    ELSE Append(rows, [borough |-> "Unknown", total_population |-> 0])

\* the table is one pd.read_csv returns, no two of its columns get the
\* same normalised name, its borough column has the object dtype and
\* every count is a text whose conversion is modelled
PopulationModelled(data) ==
    /\ Cardinality({NormalizeColumnName(k) : k \in data.columns}) = Cardinality(data.columns)
    /\ data.rows = ReadCsvRows(data.rows)
    /\ \A k \in data.columns :
          /\ NormalizeColumnName(k) = "_2010_population"
                => \A i \in 1..Len(data.rows) : NumericModelled(data.rows[i][k])
          /\ NormalizeColumnName(k) = "borough" => ColumnDtype(data.rows, k) = "object"

\* clean_population_data(data): the aggregated table, or the error
\* raised; data is the table of the caller, which the function changes in
\* place up to the groupby or the raise. In a table that has a population
\* column next to _2010_population the rename leaves two columns with the
\* label population, data['population'] is a table and to_numeric
\* rejects it; the cell under the label then holds both cells, named by
\* the labels they had before the rename
clean_population_data(data) ==
    LET original == OriginalColumn(data.columns)
        columns == DOMAIN original
        rows1 == [i \in 1..Len(data.rows) |->
                    [c \in columns |-> data.rows[i][original[c]]]]
    IN IF "borough" \notin columns
       THEN [ok |-> FALSE, error |-> "KeyError: 'borough'",
             data |-> [columns |-> columns, rows |-> rows1]]
       ELSE LET rows2 == [i \in 1..Len(rows1) |->
                            SetColumn(rows1[i], "borough", StrMethodTitle(rows1[i]["borough"]))]
            IN IF "_2010_population" \notin columns
               THEN [ok |-> FALSE,
                     error |-> "KeyError: '_2010_population' column is missing in the dataset.",
                     data |-> [columns |-> columns, rows |-> rows2]]
               ELSE LET columns3 == (columns \ {"_2010_population"}) \cup {"population"}
                        rows3 == [i \in 1..Len(rows2) |->
                                    RenameColumn(rows2[i], "_2010_population", "population")]
                        bool_columns ==
                            IF ColumnDtype(rows1, "_2010_population") = "bool"
                            THEN {"population"} ELSE {}
                        rows4 == [i \in 1..Len(rows3) |->
                                    CoerceColumns(rows3[i], {"population"}, bool_columns)]
                    IN IF "population" \in columns
                       THEN [ok |-> FALSE,
                             error |-> "TypeError: arg must be a list, tuple, 1-d array, or Series",
                             data |-> [columns |-> columns3,
                                       rows |-> [i \in 1..Len(rows2) |->
                                                   SetColumn(rows3[i], "population",
                                                       [population |-> rows2[i]["population"],
                                                        _2010_population |->
                                                            rows2[i]["_2010_population"]])]]]
                       ELSE IF NonFiniteIn(rows3, {"population"})
                       THEN [ok |-> FALSE, error |-> "IntCastingNaNError: Cannot convert non-finite values (NA or inf) to integer",
                             data |-> [columns |-> columns3, rows |-> rows3]]
                       ELSE [ok |-> TRUE,
                             columns |-> {"borough", "total_population"},
                             rows |-> AddUnknownRow(GroupPopulation(rows4)),
                             data |-> [columns |-> columns3, rows |-> rows4]]

\* ---------------------------------------------------------------------
\* preprocess_street_mapping and integrate_street_names
\* ---------------------------------------------------------------------
\* a dict is the sequence of its items in insertion order, no key twice
Item(key, value) == [key |-> key, value |-> value]

DictKeys(d) == {d[i].key : i \in 1..Len(d)}

\* d[k] for a key of d
DictGet(d, k) == d[CHOOSE i \in 1..Len(d) : d[i].key = k].value

\* the dict built from the items in their order: d[k] = v for each, a
\* key of d keeps its place and gets the value, a new key is added at the
\* end
RECURSIVE DictFromItems(_)
DictFromItems(items) ==
    IF Len(items) = 0 THEN <<>>
    ELSE LET d == DictFromItems(SubSeq(items, 1, Len(items) - 1))
             last == items[Len(items)]
         IN IF last.key \in DictKeys(d)
            THEN [i \in 1..Len(d) |-> IF d[i].key = last.key THEN last ELSE d[i]]
            ELSE Append(d, last)

\* dict(zip(stname, boro)) over the standardized columns of the rows
\* read from the file: the last row with a street name decides its code
preprocess_street_mapping(street_data) ==
    LET stname == [i \in 1..Len(street_data) |-> StrMethodStripUpper(street_data[i]["stname"])]
        boro == [i \in 1..Len(street_data) |->
                    IF street_data[i]["boro"] = NaN THEN NaN ELSE StrStrip(street_data[i]["boro"])]
    IN DictFromItems([i \in 1..Len(street_data) |-> Item(stname[i], boro[i])])

borocode_to_borough ==
    [code \in {"1", "2", "3", "4", "5"} |->
        CASE code = "1" -> "Manhattan"
          [] code = "2" -> "Bronx"
          [] code = "3" -> "Brooklyn"
          [] code = "4" -> "Queens"
          [] code = "5" -> "Staten Island"]

\* borocode_to_borough.get(boro_code, "Unknown")
BoroughOfCode(boro_code) ==
    IF boro_code \in DOMAIN borocode_to_borough THEN borocode_to_borough[boro_code] ELSE "Unknown"

\* {k.strip().upper(): v for k, v in street_mapping.items()}: of the keys
\* that standardize to the same key, the one inserted last gives the value
StandardizeMapping(mapping) ==
    DictFromItems([i \in 1..Len(mapping) |->
                      Item(StrUpper(StrStrip(mapping[i].key)), mapping[i].value)])

StreetColumns == <<"on_street_name", "off_street_name", "cross_street_name">>

\* variant of StreetFound: a street whose code names no borough counts
\* as not found, so the next street column is consulted
StreetFoundWithBorough(street, mapping) ==
    /\ street # NaN
    /\ street \in DictKeys(mapping)
    /\ DictGet(mapping, street) \in DOMAIN borocode_to_borough

\* a missing street is never a key of the mapping
StreetFound(street, mapping) == street # NaN /\ street \in DictKeys(mapping)

\* find_borough(row) from street column number n on; row holds the
\* standardized street names, mapping the standardized mapping
RECURSIVE FindBoroughFrom(_, _, _)
FindBoroughFrom(row, mapping, n) ==
    IF n > Len(StreetColumns) THEN "Unknown"
    ELSE IF StreetFound(row[StreetColumns[n]], mapping)
    THEN BoroughOfCode(DictGet(mapping, row[StreetColumns[n]]))
    ELSE FindBoroughFrom(row, mapping, n + 1)

find_borough(row, mapping) == FindBoroughFrom(row, mapping, 1)

\* the copy of an 'Unknown' row with its street names standardized
StandardizeStreets(row) ==
    [c \in DOMAIN row |->
        IF c \in {"on_street_name", "off_street_name", "cross_street_name"}
        THEN StrMethodStripUpper(row[c]) ELSE row[c]]

\* data.loc[data['borough'] == "Unknown", 'borough'] = detected_borough on
\* one 'Unknown' row: the borough found on its standardized copy is
\* written to the row itself
UpdateUnknownRow(row, mapping) ==
    SetColumn(row, "borough", find_borough(StandardizeStreets(row), mapping))

\* the .str accessor raises on one of the street columns of the rows
\* whose borough is 'Unknown': a column of numbers (one without any value
\* is a column of floats) or of booleans has no .str, and an object column
\* that holds booleans has none when one of the selected rows holds one
StrAccessorRaises(data) ==
    \E n \in 1..Len(StreetColumns) :
        \/ data.dtypes[StreetColumns[n]] \in {"number", "bool"}
        \/ /\ data.dtypes[StreetColumns[n]] = "bool_object"
           /\ \E i \in 1..Len(data.rows) :
                 /\ data.rows[i]["borough"] = "Unknown"
                 /\ data.rows[i][StreetColumns[n]] # NaN

\* variant of integrate_street_names: one call resolves only the first
\* 'Unknown' row of the table
integrate_street_names_first_row(data, mapping) ==
    IF StrAccessorRaises(data)
    THEN [ok |-> FALSE, error |-> "AttributeError: Can only use .str accessor with string values!"]
    ELSE IF NaN \in DictKeys(mapping)
    THEN [ok |-> FALSE, error |-> "AttributeError: 'float' object has no attribute 'strip'"]
    ELSE LET std == StandardizeMapping(mapping)
             unknown == {i \in 1..Len(data.rows) : data.rows[i]["borough"] = "Unknown"}
         IN [ok |-> TRUE,
             columns |-> data.columns,
             dtypes |-> data.dtypes,
             rows |-> [i \in 1..Len(data.rows) |->
                         IF i \in unknown /\ \A j \in unknown : i <= j
                         THEN UpdateUnknownRow(data.rows[i], std)
                         ELSE data.rows[i]]]

\* integrate_street_names(data, street_mapping): data with the borough of
\* its 'Unknown' rows replaced, or the AttributeError of the .str accessor
\* on a street column that is not of texts, or the AttributeError of
\* k.strip() on a missing street name of the mapping
integrate_street_names(data, mapping) ==
    IF StrAccessorRaises(data)
    THEN [ok |-> FALSE, error |-> "AttributeError: Can only use .str accessor with string values!"]
    ELSE IF NaN \in DictKeys(mapping)
    THEN [ok |-> FALSE, error |-> "AttributeError: 'float' object has no attribute 'strip'"]
    ELSE LET std == StandardizeMapping(mapping)
         IN [ok |-> TRUE,
             columns |-> data.columns,
             dtypes |-> data.dtypes,
             rows |-> [i \in 1..Len(data.rows) |->
                         IF data.rows[i]["borough"] = "Unknown"
                         THEN UpdateUnknownRow(data.rows[i], std)
                         ELSE data.rows[i]]]

\* ---------------------------------------------------------------------
\* combine_databases
\* ---------------------------------------------------------------------
\* quotient of num by den > 0 rounded to the nearest integer, a tie to
\* the even neighbour as Series.round does (3.125 gives 3.12). The code
\* rounds the binary floating-point value of (total / incidents) * 100,
\* which is the exact quotient for fewer than 160 incidents in a borough;
\* from 160 incidents on, a quotient that is a tie in exact arithmetic may
\* be stored a unit in the last place off the tie and round either way
RoundDiv(num, den) ==
    LET q == num \div den
        r == num % den
    IN IF 2 * r < den THEN q
       ELSE IF 2 * r > den THEN q + 1
       ELSE IF q % 2 = 0 THEN q ELSE q + 1

\* variant of RiskPercentage with fillna(100): 0/0 is filled with 100 percent
RiskPercentageFilledWith100(total, total_incidents) ==
    IF total_incidents = 0 THEN 10000 ELSE RoundDiv(total * 10000, total_incidents)

\* ((total / total_incidents) * 100).fillna(0).round(2), in hundredths of
\* a percent; a row without incidents has total 0 and 0/0 is filled with 0
RiskPercentage(total, total_incidents) ==
    IF total_incidents = 0 THEN 0 ELSE RoundDiv(total * 10000, total_incidents)

\* SELECT borough, SUM(..), SUM(..), COUNT(*) FROM collisions GROUP BY borough
\* for one borough
CollisionAggregate(rows, b) ==
    LET idx == {i \in 1..Len(rows) : rows[i]["borough"] = b}
    IN [total_fatalities |-> ColumnSum(rows, "total_fatalities", idx),
        total_injuries |-> ColumnSum(rows, "total_injuries", idx),
        total_incidents |-> Cardinality(idx)]

\* the joined_data rows: outer merge on borough, missing numbers filled
\* with 0, the two risk percentages added
CombinedRows(population_rows, collision_rows) ==
    LET popKeys == {population_rows[i]["borough"] : i \in 1..Len(population_rows)}
        collKeys == {collision_rows[i]["borough"] : i \in 1..Len(collision_rows)}
        keys == SortedStrings(popKeys \cup collKeys)
        pop(b) == IF b \in popKeys
                  THEN population_rows[CHOOSE i \in 1..Len(population_rows) :
                                           population_rows[i]["borough"] = b]["total_population"]
                  ELSE 0
        agg(b) == CollisionAggregate(collision_rows, b)
    IN [k \in 1..Len(keys) |->
          [borough |-> keys[k],
           total_population |-> pop(keys[k]),
           total_fatalities |-> agg(keys[k]).total_fatalities,
           total_injuries |-> agg(keys[k]).total_injuries,
           total_incidents |-> agg(keys[k]).total_incidents,
           fatality_risk_percentage |->
               RiskPercentage(agg(keys[k]).total_fatalities, agg(keys[k]).total_incidents),
           injury_risk_percentage |->
               RiskPercentage(agg(keys[k]).total_injuries, agg(keys[k]).total_incidents)]]

\* ---------------------------------------------------------------------
\* Inputs of a run
\* ---------------------------------------------------------------------
None == [none |-> TRUE]

CollisionColumns ==
    {"borough", "crash_date", "crash_time", "collision_id",
     "on_street_name", "off_street_name", "cross_street_name",
     "number_of_persons_killed", "number_of_cyclist_killed",
     "number_of_persons_injured", "number_of_pedestrians_injured",
     "vehicle_type_code1", "vehicle_type_code2"}

BaseRow ==
    [borough |-> NaN, crash_date |-> "2021-09-11", crash_time |-> "14:30",
     collision_id |-> "1",
     on_street_name |-> " main st", off_street_name |-> "BROADWAY",
     cross_street_name |-> "Elm St",
     number_of_persons_killed |-> "0", number_of_cyclist_killed |-> "0",
     number_of_persons_injured |-> "1", number_of_pedestrians_injured |-> "1",
     vehicle_type_code1 |-> "Sedan", vehicle_type_code2 |-> NaN]

CountTexts == {NaN, "x", "-1", "True", "2.7", "-2.7", "1e3", "inf"}

CountRows ==
    {[BaseRow EXCEPT !["number_of_persons_killed"] = k1,
                     !["number_of_cyclist_killed"] = k2,
                     !["number_of_persons_injured"] = j1] :
        k1 \in CountTexts, k2 \in {"1", "-2.7"}, j1 \in {"NA", "-1"}}

\* rows that differ in date, time and the way collision_id is written
DateRows ==
    {[BaseRow EXCEPT !["crash_date"] = r[1], !["crash_time"] = r[2], !["collision_id"] = r[3]] :
        r \in {<<"2020-02-29", "14:30", "1">>, <<"2020-02-29", "14:30", "01">>,
                <<"2020-02-29", "25:00", "1">>, <<"2021-02-29", "14:30", "1">>,
                <<NaN, "14:30", "1">>}}

BoroughRows ==
    {[BaseRow EXCEPT !["borough"] = b, !["on_street_name"] = s1] :
        b \in {NaN, "unknown", "STATEN ISLAND", "NARNIA"}, s1 \in {" main st", NaN}}
    \cup {[BaseRow EXCEPT !["cross_street_name"] = NaN]}

Street(stname, boro) == [stname |-> stname, boro |-> boro]

DefaultStreets == <<Street("Main St ", "1"), Street("BROADWAY", " 2"), Street("ELM ST", "3")>>

StreetFiles ==
    {DefaultStreets,
     <<Street("MAIN ST", "9"), Street("BROADWAY", "2")>>,
     <<Street("broadway", "4"), Street("ELM ST", "5"), Street("Broadway", "2")>>,
     <<Street("ELM ST", NaN)>>,
     <<Street(" elm st", "5")>>,
     <<Street(NaN, "1"), Street("MAIN ST", "1")>>,
     <<Street("PARK AVE", "1")>>,
     <<>>}

STREET_FILENAME == "bobaadr.txt"

\* an entry of the ZIP archive: its name and the rows of its text
Entry(name, rows) == [name |-> name, rows |-> rows]

\* the archive that holds the street file and nothing else
Archive(street_file) == <<Entry(STREET_FILENAME, street_file)>>

EntryNames == {"readme.txt", "bobaadr.txt", "gis/old_bobaadr.txt", "bobaadr.txt.bak"}

\* the entries an archive may hold; the rows tell the entries apart
ArchiveEntries ==
    {Entry(n, f) : n \in EntryNames,
                   f \in {DefaultStreets, <<Street("MAIN ST", "2")>>}}

PopulationRow(b, p) == [c \in {"Borough", " _2010_Population"} |-> IF c = "Borough" THEN b ELSE p]

\* the district rows of the five boroughs
BasePopulation ==
    <<PopulationRow("Bronx", "100"), PopulationRow("Bronx", "50"),
      PopulationRow("Brooklyn", "200"), PopulationRow("Manhattan", "300"),
      PopulationRow("Queens", "400"), PopulationRow("Staten Island", "500")>>

\* further rows a population file may hold
PopulationRows ==
    {PopulationRow("BRONX", "-5"), PopulationRow("BRONX", "x"), PopulationRow("Queens", "inf"),
     PopulationRow("unknown", "100"), PopulationRow("unknown", "-5"),
     PopulationRow("Narnia", "100"), PopulationRow("NULL", "100")}

\* the tables of at most n rows over a set of rows
Tables(rowSet, n) == UNION {[1..k -> rowSet] : k \in 0..n}

CollisionTable(rows) == [columns |-> CollisionColumns, rows |-> rows]

PopulationTable(rows) == [columns |-> {"Borough", " _2010_Population"}, rows |-> rows]

\* the header lines a population file may have
PopulationHeaders ==
    {{"Borough", " _2010_Population"}, {"BOROUGH ", "_2010_population", "CD Name"},
     {"Borough", "_2000_Population"}, {"Borough", "CD Name"},
     {"CD Name", "_2010_Population"}, {"CD Name", "_2000_Population"}, {"CD Name"},
     {"Borough", "population", "_2010_Population"}}

\* the cell of a district row under a header
PopulationCell(column, b, p) ==
    IF StrContains(StrLower(column), "borough") THEN b
    ELSE IF StrContains(StrLower(column), "population") THEN p
    ELSE "District 1"

\* a population table with the given header and one row per (borough, count)
SchemaTable(header, pairs) ==
    [columns |-> header,
     rows |-> [i \in 1..Len(pairs) |->
                 [c \in header |-> PopulationCell(c, pairs[i][1], pairs[i][2])]]]

\* table contents left in the databases by an earlier run on other inputs
StaleCollisions ==
    [columns |-> {"borough", "total_fatalities", "total_injuries"},
     rows |-> <<[borough |-> "Bronx", total_fatalities |-> 7, total_injuries |-> 9]>>]

StalePopulation ==
    [columns |-> {"borough", "total_population"},
     rows |-> <<[borough |-> "Bronx", total_population |-> 1]>>]

StaleJoined ==
    [columns |-> {"borough", "total_population"},
     rows |-> <<[borough |-> "Bronx", total_population |-> 1]>>]

\* the files main() and parallel_download() write under DATA_DIR
Paths == {"raw_collisions.csv", "raw_population.csv", STREET_FILENAME}

\* ---------------------------------------------------------------------
\* State machine of main()
\* ---------------------------------------------------------------------
\* the three tables as they are now
CurrentTables ==
    [collisions |-> db_collisions, population |-> db_population, joined |-> db_joined]

\* the three tables as they were when the current run of main() started
Previous == snapshots[Len(snapshots)]

\* main() starts: nothing downloaded, no file under DATA_DIR
InitMemory ==
    /\ pc = "download_collisions"
    /\ collisions_data = None
    /\ street_mapping = None
    /\ cleaned_collisions = None
    /\ population_data = None
    /\ cleaned_population = None
    /\ files = [p \in Paths |-> None]
    /\ tasks = <<>>
    /\ error = ""

\* the first run on a machine without databases
InitRun ==
    /\ InitMemory
    /\ db_collisions = None
    /\ db_population = None
    /\ db_joined = None
    /\ snapshots = <<CurrentTables>>

InitCounts ==
    /\ remote_collisions \in {CollisionTable(r) : r \in Tables(CountRows, MaxCountRows)}
    /\ remote_streets = Archive(DefaultStreets)
    /\ remote_population = PopulationTable(BasePopulation)

InitDates ==
    /\ remote_collisions \in {CollisionTable(r) : r \in Tables(DateRows, MaxRows)}
    /\ remote_streets = Archive(DefaultStreets)
    /\ remote_population = PopulationTable(BasePopulation)

InitBoroughs ==
    /\ remote_collisions \in
           {d \in {CollisionTable(r) : r \in Tables(BoroughRows, MaxBoroughRows)} :
               CollisionsModelled(d)}
    /\ remote_streets \in {Archive(f) : f \in StreetFiles}
    /\ remote_population = PopulationTable(BasePopulation)

InitPopulation ==
    /\ remote_collisions = CollisionTable(<<BaseRow>>)
    /\ remote_streets = Archive(DefaultStreets)
    /\ remote_population \in
           {PopulationTable(BasePopulation \o r) : r \in Tables(PopulationRows, MaxPopRows)}

\* population files with other header lines
InitSchemas ==
    /\ remote_collisions = CollisionTable(<<BaseRow>>)
    /\ remote_streets = Archive(DefaultStreets)
    /\ remote_population \in
           {SchemaTable(h, pairs) : h \in PopulationHeaders,
                                    pairs \in {<<>>, <<<<"BRONX", "100">>, <<"Queens", "7">>>>}}

\* archives with other entries
InitArchives ==
    /\ remote_collisions = CollisionTable(<<BaseRow>>)
    /\ remote_streets \in Tables(ArchiveEntries, MaxEntries)
    /\ remote_population = PopulationTable(BasePopulation)

\* a response without content
EmptyBody == [columns |-> {}, rows |-> <<>>]

\* sources that answer with an empty body
InitEmptyBodies ==
    /\ remote_collisions \in {EmptyBody, CollisionTable(<<BaseRow>>)}
    /\ remote_streets = Archive(DefaultStreets)
    /\ remote_population = EmptyBody

InitInputs ==
    \/ InitCounts \/ InitDates \/ InitBoroughs \/ InitPopulation \/ InitSchemas
    \/ InitArchives \/ InitEmptyBodies

Init == InitRun /\ InitInputs

Raise(message) == pc' = "failed" /\ error' = message

\* what the URL serves
Remote(url) ==
    CASE url = "COLLISION_URL" -> remote_collisions
      [] url = "POPULATION_URL" -> remote_population
      [] url = "STREET_ZIP_URL" -> remote_streets

\* download_data(url, save_path) after a 2xx response: the content is
\* written to save_path
FilesAfterDownload(url, save_path) == [files EXCEPT ![save_path] = Remote(url)]

\* pd.read_csv(save_path) raises EmptyDataError on a file without a
\* header line
ReadCsvRaises(file) == file.columns = {}

\* pd.read_csv(save_path): the table read from the file
ReadCsv(file) == [columns |-> file.columns, rows |-> ReadCsvRows(file.rows)]

\* main: collisions_data = download_data(COLLISION_URL, ...)
DownloadCollisions ==
    /\ pc = "download_collisions"
    /\ \E retrieved \in BOOLEAN :
          IF retrieved
          THEN /\ files' = FilesAfterDownload("COLLISION_URL", "raw_collisions.csv")
               /\ IF ReadCsvRaises(files'["raw_collisions.csv"])
                  THEN /\ Raise("EmptyDataError: No columns to parse from file")
                       /\ UNCHANGED collisions_data
                  ELSE /\ collisions_data' = ReadCsv(files'["raw_collisions.csv"])
                       /\ pc' = "download_streets"
                       /\ error' = error
          ELSE /\ Raise("RequestException")
               /\ UNCHANGED <<collisions_data, files>>
    /\ UNCHANGED <<remote_collisions, remote_population, remote_streets, street_mapping,
                   cleaned_collisions, population_data, cleaned_population,
                   db_collisions, db_population, db_joined, snapshots, tasks>>

\* download_and_extract_zip: the position in zf.namelist() of target_file,
\* the first name that ends with extract_filename; 0 when target_file
\* stays None
TargetFile(names, extract_filename) ==
    IF \E i \in 1..Len(names) : StrEndsWith(names[i], extract_filename)
    THEN CHOOSE i \in 1..Len(names) :
            /\ StrEndsWith(names[i], extract_filename)
            /\ \A j \in 1..(i - 1) : ~StrEndsWith(names[j], extract_filename)
    ELSE 0

\* zf.namelist()
NameList(archive) == [i \in 1..Len(archive) |-> archive[i].name]

\* zf.open(name): the archive keeps one entry per name, the last one
\* with that name; the position of the entry that is read
OpenedEntry(archive, name) ==
    CHOOSE i \in 1..Len(archive) :
        /\ archive[i].name = name
        /\ \A j \in (i + 1)..Len(archive) : archive[j].name # name

\* a text file under DATA_DIR with the rows of its content
TextFile(rows) == [rows |-> rows]

\* main: download_and_extract_zip(STREET_ZIP_URL, STREET_FILENAME, street_txt_path)
DownloadAndExtractZip ==
    /\ pc = "download_streets"
    /\ \E retrieved \in BOOLEAN :
          IF retrieved
          THEN LET zf == Remote("STREET_ZIP_URL")
                   target_file == TargetFile(NameList(zf), STREET_FILENAME)
               IN IF target_file = 0
                  THEN /\ Raise("FileNotFoundError: " \o STREET_FILENAME
                                    \o " not found in the ZIP archive.")
                       /\ UNCHANGED files
                  ELSE /\ files' = [files EXCEPT ![STREET_FILENAME] =
                                        TextFile(zf[OpenedEntry(zf, zf[target_file].name)].rows)]
                       /\ pc' = "preprocess_streets"
                       /\ error' = error
          ELSE /\ Raise("RequestException")
               /\ UNCHANGED files
    /\ UNCHANGED <<remote_collisions, remote_population, remote_streets, collisions_data,
                   street_mapping, cleaned_collisions, population_data, cleaned_population,
                   db_collisions, db_population, db_joined, snapshots, tasks>>

\* main: street_mapping = preprocess_street_mapping(street_txt_path)
PreprocessStreetMapping ==
    /\ pc = "preprocess_streets"
    /\ street_mapping' = preprocess_street_mapping(ReadCsvRows(files[STREET_FILENAME].rows))
    /\ pc' = "clean_collisions"
    /\ UNCHANGED <<remote_collisions, remote_population, remote_streets, collisions_data,
                   cleaned_collisions, population_data, cleaned_population,
                   db_collisions, db_population, db_joined, snapshots, tasks, files, error>>

\* main: cleaned_collisions = clean_collisions_data(collisions_data)
CleanCollisions ==
    /\ pc = "clean_collisions"
    /\ CollisionsModelled(collisions_data) = TRUE
    /\ LET result == clean_collisions_data(collisions_data)
       IN IF result.ok
          THEN /\ cleaned_collisions' = [columns |-> result.columns, rows |-> result.rows,
                                         dtypes |-> result.dtypes]
               /\ pc' = "integrate"
               /\ error' = error
          ELSE /\ Raise(result.error)
               /\ UNCHANGED cleaned_collisions
    /\ UNCHANGED <<remote_collisions, remote_population, remote_streets, collisions_data,
                   street_mapping, population_data, cleaned_population,
                   db_collisions, db_population, db_joined, snapshots, tasks, files>>

\* main: cleaned_collisions = integrate_street_names(cleaned_collisions, street_mapping)
IntegrateStreetNames ==
    /\ pc = "integrate"
    /\ LET result == integrate_street_names(cleaned_collisions, street_mapping)
       IN IF result.ok
          THEN /\ cleaned_collisions' = [columns |-> result.columns, rows |-> result.rows,
                                         dtypes |-> result.dtypes]
               /\ pc' = "download_population"
               /\ error' = error
          ELSE /\ Raise(result.error)
               /\ UNCHANGED cleaned_collisions
    /\ UNCHANGED <<remote_collisions, remote_population, remote_streets, collisions_data,
                   street_mapping, population_data, cleaned_population,
                   db_collisions, db_population, db_joined, snapshots, tasks, files>>

\* main: population_data = download_data(POPULATION_URL, ...)
DownloadPopulation ==
    /\ pc = "download_population"
    /\ \E retrieved \in BOOLEAN :
          IF retrieved
          THEN /\ files' = FilesAfterDownload("POPULATION_URL", "raw_population.csv")
               /\ IF ReadCsvRaises(files'["raw_population.csv"])
                  THEN /\ Raise("EmptyDataError: No columns to parse from file")
                       /\ UNCHANGED population_data
                  ELSE /\ population_data' = ReadCsv(files'["raw_population.csv"])
                       /\ pc' = "clean_population"
                       /\ error' = error
          ELSE /\ Raise("RequestException")
               /\ UNCHANGED <<population_data, files>>
    /\ UNCHANGED <<remote_collisions, remote_population, remote_streets, collisions_data,
                   street_mapping, cleaned_collisions, cleaned_population,
                   db_collisions, db_population, db_joined, snapshots, tasks>>

\* main: cleaned_population = clean_population_data(population_data);
\* the call changes population_data in place
CleanPopulation ==
    /\ pc = "clean_population"
    /\ PopulationModelled(population_data) = TRUE
    /\ LET result == clean_population_data(population_data)
       IN /\ population_data' = result.data
          /\ IF result.ok
             THEN /\ cleaned_population' = [columns |-> result.columns, rows |-> result.rows]
                  /\ pc' = "save_collisions"
                  /\ error' = error
             ELSE /\ Raise(result.error)
                  /\ UNCHANGED cleaned_population
    /\ UNCHANGED <<remote_collisions, remote_population, remote_streets, collisions_data,
                   street_mapping, cleaned_collisions,
                   db_collisions, db_population, db_joined, snapshots, tasks, files>>

\* variant of ToSqlReplace: if_exists="append"
ToSqlAppend(existing, dataframe) ==
    IF existing = None THEN dataframe
    ELSE [columns |-> dataframe.columns, rows |-> existing.rows \o dataframe.rows]

\* dataframe.to_sql(table_name, ..., if_exists="replace"): the table after
\* the write holds the dataframe, whatever it held before
ToSqlReplace(existing, dataframe) == dataframe

\* a table written earlier in the run when a later write raises: every
\* write has its own connection, so the table keeps what it holds
AfterFailedWrite(table, at_start) == table

\* what the table may hold when to_sql(..., if_exists="replace") raises.
\* The write drops the table, creates it with the columns of the
\* dataframe and inserts the rows; on SQLite the drop and the create are
\* not undone when a later step fails. The table is as it was (failure
\* before the drop), missing (failure in the create) or empty with the
\* new columns (failure in the insert, which is rolled back)
FailedReplaceOutcomes(existing, dataframe) ==
    {existing, None, [columns |-> dataframe.columns, rows |-> <<>>]}

\* the columns of the table combine_databases writes
JoinedColumns ==
    {"borough", "total_population", "total_fatalities", "total_injuries", "total_incidents",
     "fatality_risk_percentage", "injury_risk_percentage"}

\* main: save_to_sqlite(cleaned_collisions, ..., "collisions")
SaveCollisions ==
    /\ pc = "save_collisions"
    /\ \E written \in BOOLEAN :
          IF written
          THEN /\ db_collisions' = ToSqlReplace(db_collisions, cleaned_collisions)
               /\ pc' = "save_population"
               /\ error' = error
          ELSE /\ Raise("SQLAlchemyError")
               /\ db_collisions' \in FailedReplaceOutcomes(db_collisions, cleaned_collisions)
    /\ UNCHANGED <<remote_collisions, remote_population, remote_streets, collisions_data,
                   street_mapping, cleaned_collisions, population_data, cleaned_population,
                   db_population, db_joined, snapshots, tasks, files>>

\* main: save_to_sqlite(cleaned_population, ..., "population")
SavePopulation ==
    /\ pc = "save_population"
    /\ \E written \in BOOLEAN :
          IF written
          THEN /\ db_population' = ToSqlReplace(db_population, cleaned_population)
               /\ pc' = "combine"
               /\ error' = error
               /\ UNCHANGED db_collisions
          ELSE /\ Raise("SQLAlchemyError")
               /\ db_collisions' = AfterFailedWrite(db_collisions, Previous.collisions)
               /\ db_population' \in FailedReplaceOutcomes(db_population, cleaned_population)
    /\ UNCHANGED <<remote_collisions, remote_population, remote_streets, collisions_data,
                   street_mapping, cleaned_collisions, population_data, cleaned_population,
                   db_joined, snapshots, tasks, files>>

\* main: combine_databases()
CombineDatabases ==
    /\ pc = "combine"
    /\ \E written \in BOOLEAN :
          IF written
          THEN /\ db_joined' =
                     ToSqlReplace(db_joined,
                         [columns |-> JoinedColumns,
                          rows |-> CombinedRows(db_population.rows, db_collisions.rows)])
               /\ pc' = "done"
               /\ error' = error
               /\ UNCHANGED <<db_collisions, db_population>>
          ELSE /\ Raise("DatabaseError")
               /\ db_collisions' = AfterFailedWrite(db_collisions, Previous.collisions)
               /\ db_population' = AfterFailedWrite(db_population, Previous.population)
               /\ db_joined' \in FailedReplaceOutcomes(db_joined,
                                                       [columns |-> JoinedColumns, rows |-> <<>>])
    /\ UNCHANGED <<remote_collisions, remote_population, remote_streets, collisions_data,
                   street_mapping, cleaned_collisions, population_data, cleaned_population,
                   snapshots, tasks, files>>

Next ==
    \/ DownloadCollisions
    \/ DownloadAndExtractZip
    \/ PreprocessStreetMapping
    \/ CleanCollisions
    \/ IntegrateStreetNames
    \/ DownloadPopulation
    \/ CleanPopulation
    \/ SaveCollisions
    \/ SavePopulation
    \/ CombineDatabases

Spec == Init /\ [][Next]_vars

\* ---------------------------------------------------------------------
\* main() run again on the same inputs
\* ---------------------------------------------------------------------
\* the databases hold the tables of an earlier run, or no table
InitRerun ==
    /\ InitMemory
    /\ db_collisions \in {None, StaleCollisions}
    /\ db_population \in {None, StalePopulation}
    /\ db_joined \in {None, StaleJoined}
    /\ snapshots = <<CurrentTables>>
    /\ remote_collisions \in
           {d \in {CollisionTable(r) : r \in Tables(BoroughRows, 1)} : CollisionsModelled(d)}
    /\ remote_streets = Archive(DefaultStreets)
    /\ remote_population = PopulationTable(BasePopulation)

\* main() is started again after a full run: the process starts with
\* nothing in memory, the files and the databases are as the run left them
Restart ==
    /\ pc = "done"
    /\ Len(snapshots) < MaxRuns
    /\ pc' = "download_collisions"
    /\ snapshots' = Append(snapshots, CurrentTables)
    /\ collisions_data' = None
    /\ street_mapping' = None
    /\ cleaned_collisions' = None
    /\ population_data' = None
    /\ cleaned_population' = None
    /\ UNCHANGED <<remote_collisions, remote_population, remote_streets,
                   db_collisions, db_population, db_joined, tasks, files, error>>

NextRerun == Next \/ Restart

SpecRerun == InitRerun /\ [][NextRerun]_vars

\* ---------------------------------------------------------------------
\* State machine of parallel_download()
\* ---------------------------------------------------------------------
\* zip(a, b): as many pairs as the shorter sequence has elements
Zip(a, b) ==
    [i \in 1..(IF Len(a) < Len(b) THEN Len(a) ELSE Len(b)) |-> <<a[i], b[i]>>]

\* the calls of download_data that executor.map submits for the urls and
\* save_paths of parallel_download
SubmittedTasks ==
    LET urls == <<"COLLISION_URL", "POPULATION_URL", "STREET_ZIP_URL">>
        save_paths == <<"raw_collisions.csv", "raw_population.csv">>
        args == Zip(urls, save_paths)
    IN [i \in 1..Len(args) |-> [url |-> args[i][1], save_path |-> args[i][2], state |-> "queued"]]

InitParallel ==
    /\ pc = "parallel_download"
    /\ collisions_data = None
    /\ street_mapping = None
    /\ cleaned_collisions = None
    /\ population_data = None
    /\ cleaned_population = None
    /\ files = [p \in Paths |-> None]
    /\ tasks = SubmittedTasks
    /\ error = ""
    /\ db_collisions = None
    /\ db_population = None
    /\ db_joined = None
    /\ snapshots = <<CurrentTables>>
    /\ (InitCounts \/ InitPopulation \/ InitSchemas \/ InitEmptyBodies)

\* a worker thread starts download_data(url, save_path) of task i: the
\* response is written to save_path, or the request raises; an exception
\* is kept in the result that nobody reads
StartDownloadTask(i) ==
    /\ pc = "parallel_download"
    /\ tasks[i].state = "queued"
    /\ \E retrieved \in BOOLEAN :
          IF retrieved
          THEN /\ files' = FilesAfterDownload(tasks[i].url, tasks[i].save_path)
               /\ tasks' = [tasks EXCEPT ![i].state = "written"]
          ELSE /\ tasks' = [tasks EXCEPT ![i].state = "raised"]
               /\ UNCHANGED files
    /\ UNCHANGED <<pc, error, remote_collisions, remote_population, remote_streets,
                   collisions_data, street_mapping, cleaned_collisions, population_data,
                   cleaned_population, db_collisions, db_population, db_joined, snapshots>>

\* the worker thread of task i reads the file it wrote and returns the
\* table to the executor, or read_csv raises
FinishDownloadTask(i) ==
    /\ pc = "parallel_download"
    /\ tasks[i].state = "written"
    /\ tasks' = [tasks EXCEPT ![i].state =
                     IF ReadCsvRaises(files[tasks[i].save_path]) THEN "raised" ELSE "returned"]
    /\ UNCHANGED <<pc, error, files, remote_collisions, remote_population, remote_streets,
                   collisions_data, street_mapping, cleaned_collisions, population_data,
                   cleaned_population, db_collisions, db_population, db_joined, snapshots>>

\* the with block waits for the workers and parallel_download returns;
\* the iterator of executor.map is never consumed
ParallelReturn ==
    /\ pc = "parallel_download"
    /\ \A i \in 1..Len(tasks) : tasks[i].state \in {"returned", "raised"}
    /\ pc' = "parallel_returned"
    /\ UNCHANGED <<error, tasks, files, remote_collisions, remote_population, remote_streets,
                   collisions_data, street_mapping, cleaned_collisions, population_data,
                   cleaned_population, db_collisions, db_population, db_joined, snapshots>>

NextParallel ==
    \/ \E i \in 1..Len(tasks) : StartDownloadTask(i)
    \/ \E i \in 1..Len(tasks) : FinishDownloadTask(i)
    \/ ParallelReturn

SpecParallel == InitParallel /\ [][NextParallel]_vars

\* ---------------------------------------------------------------------
\* integrate_street_names applied to its own output
\* ---------------------------------------------------------------------
\* mappings a caller may pass that preprocess_street_mapping does not
\* build: two keys that standardize to the same key, in both orders
DirectMappings ==
    {<<Item("MAIN ST", "2"), Item("Main St", "1")>>,
     <<Item("Main St", "1"), Item("MAIN ST", "2")>>}

\* a cleaned collisions table and a street mapping, as main() holds them
\* when it calls integrate_street_names, or a mapping of the caller's own
InitTwice ==
    /\ InitBoroughs
    /\ pc = "apply_first"
    /\ collisions_data = remote_collisions
    /\ \/ street_mapping = preprocess_street_mapping(ReadCsvRows(remote_streets[1].rows))
       \/ /\ remote_streets = Archive(DefaultStreets)
          /\ street_mapping \in DirectMappings
    /\ LET result == clean_collisions_data(remote_collisions)
       IN cleaned_collisions = [columns |-> result.columns, rows |-> result.rows,
                                dtypes |-> result.dtypes]
    /\ population_data = None
    /\ cleaned_population = None
    /\ files = [p \in Paths |-> None]
    /\ tasks = <<>>
    /\ error = ""
    /\ db_collisions = None
    /\ db_population = None
    /\ db_joined = None
    /\ snapshots = <<CurrentTables>>

\* data = integrate_street_names(data, street_mapping), called on the
\* cleaned table and then on the table the first call returned
ApplyIntegrateStreetNames ==
    /\ pc \in {"apply_first", "apply_second"}
    /\ LET result == integrate_street_names(cleaned_collisions, street_mapping)
       IN IF result.ok
          THEN /\ cleaned_collisions' = [columns |-> result.columns, rows |-> result.rows,
                                         dtypes |-> result.dtypes]
               /\ pc' = IF pc = "apply_first" THEN "apply_second" ELSE "applied_twice"
               /\ error' = error
          ELSE /\ Raise(result.error)
               /\ UNCHANGED cleaned_collisions
    /\ UNCHANGED <<remote_collisions, remote_population, remote_streets, collisions_data,
                   street_mapping, population_data, cleaned_population,
                   db_collisions, db_population, db_joined, snapshots, tasks, files>>

NextTwice == ApplyIntegrateStreetNames

SpecTwice == InitTwice /\ [][NextTwice]_vars

\* ---------------------------------------------------------------------
\* Properties
\* ---------------------------------------------------------------------
\* clean_collisions_data has just returned cleaned_collisions
CollisionsCleaned == pc = "integrate"

\* integrate_street_names has just returned cleaned_collisions
AfterIntegrate == pc = "download_population"

\* integrate_street_names has raised: main() has ended with its error and
\* cleaned_collisions is the table the function was given
IntegrateFailed == pc = "failed" /\ StrContains(error, "AttributeError")

\* clean_population_data has just returned cleaned_population
PopulationCleaned == pc = "save_collisions"

CanonicalBoroughs == {"Manhattan", "Bronx", "Brooklyn", "Queens", "Staten Island"}

\* the columns whose lower-cased name contains 'killed'
KilledColumns(columns) == {c \in columns : StrContains(StrLower(c), "killed")}

\* the columns whose lower-cased name contains 'injured'
InjuredColumns(columns) == {c \in columns : StrContains(StrLower(c), "injured")}

\* C1: in every row returned by clean_collisions_data, total_fatalities is
\* the sum of the row's cells in the columns named ...killed... and
\* total_injuries the sum of its cells in the columns named ...injured...
C1_TotalsAreColumnSums ==
    CollisionsCleaned =>
        LET killed == KilledColumns(cleaned_collisions.columns)
            injured == InjuredColumns(cleaned_collisions.columns)
        IN \A i \in 1..Len(cleaned_collisions.rows) :
              LET row == cleaned_collisions.rows[i]
              IN /\ row["total_fatalities"] = RowSum(row, killed)
                 /\ row["total_injuries"] = RowSum(row, injured)

\* a cleaned row whose source had 2.7 persons and 1 cyclist killed, no
\* parseable injured persons and 1 injured pedestrian: totals 3 and 1
C1_Witness ==
    /\ CollisionsCleaned
    /\ Len(collisions_data.rows) = 1
    /\ collisions_data.rows[1]["number_of_persons_killed"] = "2.7"
    /\ collisions_data.rows[1]["number_of_cyclist_killed"] = "1"
    /\ collisions_data.rows[1]["number_of_persons_injured"] = NaN
    /\ Len(cleaned_collisions.rows) = 1
    /\ cleaned_collisions.rows[1]["number_of_persons_killed"] = 2
    /\ cleaned_collisions.rows[1]["total_fatalities"] = 3
    /\ cleaned_collisions.rows[1]["total_injuries"] = 1

\* C2: in every row returned by clean_collisions_data, every killed and
\* injured count is a non-negative integer and both totals are at least 0
C2_CountsNonNegative ==
    CollisionsCleaned =>
        LET counts == KilledColumns(cleaned_collisions.columns)
                      \cup InjuredColumns(cleaned_collisions.columns)
        IN \A i \in 1..Len(cleaned_collisions.rows) :
              LET row == cleaned_collisions.rows[i]
              IN /\ \A c \in counts : row[c] \in Nat
                 /\ row["total_fatalities"] >= 0
                 /\ row["total_injuries"] >= 0

\* the rows of the collisions table read from the download whose date
\* parses, one position for every group of rows that hold the same values
DistinctDatedRows ==
    {i \in 1..Len(collisions_data.rows) :
        /\ DateParses(collisions_data.rows[i]["crash_date"])
        /\ \A j \in 1..(i - 1) : ~SameRow(collisions_data.rows, j, i)}

\* C3: clean_collisions_data returns one row for each distinct input row
\* whose crash_date parses, whether or not its crash_time parses
C3_OneRowPerDistinctDatedRow ==
    CollisionsCleaned =>
        Len(cleaned_collisions.rows) = Cardinality(DistinctDatedRows)

\* a duplicate pair with a date and no parseable time, and a row without a
\* parseable date: one row is returned
C3_Witness ==
    /\ CollisionsCleaned
    /\ Len(collisions_data.rows) = 3
    /\ collisions_data.rows[1] = collisions_data.rows[2]
    /\ collisions_data.rows[1]["crash_date"] = "2020-02-29"
    /\ collisions_data.rows[1]["crash_time"] = "25:00"
    /\ collisions_data.rows[3]["crash_date"] = "2021-02-29"
    /\ Len(cleaned_collisions.rows) = 1

\* three input rows: two of them equal, the third different, and exactly
\* one of the three without a parseable date
ThreeRowFixture ==
    /\ Len(collisions_data.rows) = 3
    /\ Cardinality({i \in 1..3 : \A j \in 1..(i - 1) : ~SameRow(collisions_data.rows, j, i)}) = 2
    /\ Cardinality({i \in 1..3 : ~DateParses(collisions_data.rows[i]["crash_date"])}) = 1

\* C4 as stated: the three-row fixture yields exactly 2 rows
C4_FixtureYieldsTwoRows ==
    (CollisionsCleaned /\ ThreeRowFixture) => Len(cleaned_collisions.rows) = 2

\* C4 amended: the three-row fixture yields exactly 1 row
C4_FixtureYieldsOneRow ==
    (CollisionsCleaned /\ ThreeRowFixture) => Len(cleaned_collisions.rows) = 1

\* the fixture has been cleaned
C4_Witness ==
    /\ CollisionsCleaned
    /\ ThreeRowFixture
    /\ DateParses(collisions_data.rows[1]["crash_date"])
    /\ Len(cleaned_collisions.rows) = 1

\* C5: after clean_collisions_data and integrate_street_names every
\* borough of the collisions table is a canonical borough or Unknown
C5_BoroughsCanonical ==
    AfterIntegrate =>
        \A i \in 1..Len(cleaned_collisions.rows) :
            cleaned_collisions.rows[i]["borough"] \in CanonicalBoroughs \cup {"Unknown"}

\* the street name, trimmed and upper-cased, is a key of the mapping
\* with its keys trimmed and upper-cased
Listed(street) ==
    /\ street # NaN
    /\ StrUpper(StrStrip(street)) \in DictKeys(StandardizeMapping(street_mapping))

\* the code the standardized mapping lists the street with: of the keys
\* that standardize to the street, the one inserted last gives the code
CodeOf(street) == DictGet(StandardizeMapping(street_mapping), StrUpper(StrStrip(street)))

\* the table integrate_street_names was given
BeforeIntegrate == clean_collisions_data(collisions_data).rows

\* C6: when integrate_street_names has ended, a row that was Unknown has
\* the borough of the first of on_street_name, off_street_name,
\* cross_street_name that is listed
C6_FirstListedStreetDecides ==
    (AfterIntegrate \/ IntegrateFailed) =>
        LET given == BeforeIntegrate
        IN \A i \in 1..Len(cleaned_collisions.rows) :
            LET before == given[i]
                on == before["on_street_name"]
                off == before["off_street_name"]
                cross == before["cross_street_name"]
                borough == cleaned_collisions.rows[i]["borough"]
            IN before["borough"] = "Unknown" =>
                 /\ Listed(on) => borough = BoroughOfCode(CodeOf(on))
                 /\ (~Listed(on) /\ Listed(off)) => borough = BoroughOfCode(CodeOf(off))
                 /\ (~Listed(on) /\ ~Listed(off) /\ Listed(cross))
                        => borough = BoroughOfCode(CodeOf(cross))

\* C7: after a full run the persisted collisions table has no Unknown row
C7_NoUnknownPersisted ==
    pc = "done" =>
        \A i \in 1..Len(db_collisions.rows) : db_collisions.rows[i]["borough"] # "Unknown"

\* C8: clean_population_data returns exactly one row for each canonical
\* borough and for Unknown, no other row, and no negative total_population
C8_PopulationRowsCanonical ==
    PopulationCleaned =>
        /\ \A b \in CanonicalBoroughs \cup {"Unknown"} :
              Cardinality({i \in 1..Len(cleaned_population.rows) :
                              cleaned_population.rows[i]["borough"] = b}) = 1
        /\ \A i \in 1..Len(cleaned_population.rows) :
              /\ cleaned_population.rows[i]["borough"] \in CanonicalBoroughs \cup {"Unknown"}
              /\ cleaned_population.rows[i]["total_population"] >= 0

\* the population table as it was downloaded
DownloadedPopulation == files["raw_population.csv"]

\* no row of the downloaded population table has a borough that
\* title-cases to Unknown
SourceWithoutUnknown ==
    LET borough == OriginalColumn(DownloadedPopulation.columns)["borough"]
    IN \A i \in 1..Len(DownloadedPopulation.rows) :
          \/ DownloadedPopulation.rows[i][borough] = NaN
          \/ StrTitle(DownloadedPopulation.rows[i][borough]) # "Unknown"

\* C9: the table of clean_population_data has an Unknown row, and that
\* row has total_population 0 when the source has no Unknown row
C9_UnknownRowPresent ==
    PopulationCleaned =>
        /\ \E i \in 1..Len(cleaned_population.rows) :
              cleaned_population.rows[i]["borough"] = "Unknown"
        /\ SourceWithoutUnknown =>
              \A i \in 1..Len(cleaned_population.rows) :
                  cleaned_population.rows[i]["borough"] = "Unknown"
                      => cleaned_population.rows[i]["total_population"] = 0

\* a source without Unknown rows: the Unknown row follows the five
\* borough rows and holds 0
C9_Witness ==
    /\ PopulationCleaned
    /\ Len(DownloadedPopulation.rows) = 8
    /\ DownloadedPopulation.rows[7]["Borough"] = "BRONX"
    /\ DownloadedPopulation.rows[7][" _2010_Population"] = "-5"
    /\ SourceWithoutUnknown
    /\ Len(cleaned_population.rows) = 6
    /\ cleaned_population.rows[1] = [borough |-> "Bronx", total_population |-> 145]
    /\ cleaned_population.rows[6] = [borough |-> "Unknown", total_population |-> 0]

\* C10: after a full run the persisted population table has no row with
\* total_population <= 0
C10_PopulationPositive ==
    pc = "done" =>
        \A i \in 1..Len(db_population.rows) : db_population.rows[i]["total_population"] > 0

\* C11: after a full run every borough of the persisted collisions table
\* is a borough of the persisted population table
C11_BoroughsCoveredByPopulation ==
    pc = "done" =>
        \A i \in 1..Len(db_collisions.rows) :
            \E j \in 1..Len(db_population.rows) :
                db_population.rows[j]["borough"] = db_collisions.rows[i]["borough"]

\* a joined_data row without incidents
NoIncidents(row) == row["total_incidents"] = 0

\* C12: every joined_data row with total_incidents = 0 has both risk
\* percentages equal to the number 0
C12_NoIncidentsZeroRisk ==
    pc = "done" =>
        \A k \in 1..Len(db_joined.rows) :
            NoIncidents(db_joined.rows[k]) =>
                /\ db_joined.rows[k]["fatality_risk_percentage"] = 0
                /\ db_joined.rows[k]["injury_risk_percentage"] = 0

\* Queens is in the population table and in no collision: its joined row
\* has the population, no incident and both percentages 0, next to a
\* borough with incidents and a percentage above 0
C12_Witness ==
    /\ pc = "done"
    /\ \E k \in 1..Len(db_joined.rows) :
          /\ db_joined.rows[k]["borough"] = "Queens"
          /\ db_joined.rows[k]["total_population"] = 400
          /\ NoIncidents(db_joined.rows[k])
          /\ db_joined.rows[k]["fatality_risk_percentage"] = 0
          /\ db_joined.rows[k]["injury_risk_percentage"] = 0
    /\ \E k \in 1..Len(db_joined.rows) :
          /\ db_joined.rows[k]["total_incidents"] > 0
          /\ db_joined.rows[k]["injury_risk_percentage"] > 0

\* C13: a full run leaves in every table exactly what the run computed,
\* whatever the table held before, and a full second run on the same inputs
\* leaves the three tables as the first run left them
C13_RerunLeavesTables ==
    pc = "done" =>
        /\ db_collisions = cleaned_collisions
        /\ db_population = cleaned_population
        /\ db_joined.rows = CombinedRows(cleaned_population.rows, cleaned_collisions.rows)
        /\ Len(snapshots) >= 2 => CurrentTables = Previous

\* the second run has ended on databases that held stale tables before
\* the first run: one collision row, six population rows, as after run one
C13_Witness ==
    /\ pc = "done"
    /\ Len(snapshots) = 2
    /\ snapshots[1] = [collisions |-> StaleCollisions, population |-> StalePopulation,
                       joined |-> StaleJoined]
    /\ Len(db_collisions.rows) = 1
    /\ Len(db_population.rows) = 6
    /\ CurrentTables = snapshots[2]
    /\ db_collisions # StaleCollisions

\* C14: a retrieval failure reaches the caller of the acquisition
\* operation: main() ends with the error before any table is written, and
\* parallel_download() does not return normally when one of its download
\* tasks has raised
C14_RetrievalFailurePropagates ==
    /\ (pc = "failed" /\ error = "RequestException") => CurrentTables = Previous
    /\ pc = "parallel_returned" => \A i \in 1..Len(tasks) : tasks[i].state # "raised"

\* clean_population_data has been called on population_data
PopulationCleaningEnded == population_data # None /\ pc # "clean_population"

\* C15: when the population table has no _2010_population column (names
\* lower-cased and trimmed), clean_population_data returns no table and
\* raises an error whose message names _2010_population, whether or not
\* the table has a borough column
C15_MissingPopulationColumnNamed ==
    (/\ PopulationCleaningEnded
     /\ "_2010_population" \notin {NormalizeColumnName(k) : k \in DownloadedPopulation.columns})
        => /\ pc = "failed"
           /\ cleaned_population = None
           /\ StrContains(error, "_2010_population")

\* download_and_extract_zip has just returned
ZipExtracted == pc = "preprocess_streets"

\* no entry of the archive has a name that ends with the target file name
NoTargetEntry ==
    \A i \in 1..Len(remote_streets) : ~StrEndsWith(remote_streets[i].name, STREET_FILENAME)

NotFoundRaised ==
    pc = "failed" /\ error = "FileNotFoundError: bobaadr.txt not found in the ZIP archive."

\* C16: download_and_extract_zip writes to the destination the first
\* entry, in archive order, whose name ends with the target file name;
\* when no name has that suffix the run ends there with the not-found
\* error and the destination file is not written
C16_FirstSuffixEntryExtracted ==
    /\ ZipExtracted =>
          \E i \in 1..Len(remote_streets) :
              /\ StrEndsWith(remote_streets[i].name, STREET_FILENAME)
              /\ \A j \in 1..(i - 1) : ~StrEndsWith(remote_streets[j].name, STREET_FILENAME)
              /\ files[STREET_FILENAME] = TextFile(remote_streets[i].rows)
    /\ NoTargetEntry =>
          \/ pc \in {"download_collisions", "download_streets"}
          \/ /\ pc = "failed"
             /\ collisions_data = None \/ error = "RequestException" \/ NotFoundRaised
             /\ files[STREET_FILENAME] = None
    /\ NotFoundRaised => NoTargetEntry /\ files[STREET_FILENAME] = None

\* C17: when the write of the population table fails, the run ends with
\* the collisions table holding the data of this run and the population
\* and joined_data tables holding what the previous run left in them;
\* when combine_databases fails, collisions and population hold the data
\* of this run and joined_data what the previous run left in it
C17_NoTransactionAcrossWrites ==
    [][/\ (pc = "save_population" /\ pc' = "failed") =>
             /\ db_collisions' = cleaned_collisions
             /\ Previous.population # None => db_population' = Previous.population
             /\ Previous.joined # None => db_joined' = Previous.joined
       /\ (pc = "combine" /\ pc' = "failed") =>
             /\ db_collisions' = cleaned_collisions
             /\ db_population' = cleaned_population
             /\ Previous.joined # None => db_joined' = Previous.joined]_vars

\* the downloads of the three sources have finished
AllDownloaded ==
    /\ collisions_data # None
    /\ files[STREET_FILENAME] # None
    /\ population_data # None

\* main() is about to call a normalization step
NormalizationStarts == pc \in {"clean_collisions", "integrate", "clean_population"}

\* C18: whenever a normalization step starts, the downloads of the
\* collisions, the population and the street reference have finished
C18_DownloadsBeforeNormalization == NormalizationStarts => AllDownloaded

\* C19: integrate_street_names returns the rows it was given, in their
\* order, with nothing changed but the borough of rows that were Unknown;
\* a row that was Unknown and has none of its three streets listed stays
\* Unknown, and no table makes the function raise: it raises only for a
\* mapping with a missing street name
C19_OnlyUnknownBoroughsChange ==
    /\ AfterIntegrate =>
          LET given == BeforeIntegrate
          IN /\ Len(cleaned_collisions.rows) = Len(given)
             /\ \A i \in 1..Len(given) :
                   LET after == cleaned_collisions.rows[i]
                   IN /\ after = [given[i] EXCEPT !["borough"] = after["borough"]]
                      /\ given[i]["borough"] # "Unknown" => after = given[i]
                      /\ (/\ given[i]["borough"] = "Unknown"
                          /\ ~Listed(given[i]["on_street_name"])
                          /\ ~Listed(given[i]["off_street_name"])
                          /\ ~Listed(given[i]["cross_street_name"]))
                            => after = given[i]
    /\ IntegrateFailed => NaN \in DictKeys(street_mapping)

\* the street is listed with a code that names no borough
ListedWithoutBorough(street) == Listed(street) /\ CodeOf(street) \notin DOMAIN borocode_to_borough

\* C20: when integrate_street_names has ended, returning or raising, a
\* row that was Unknown is still Unknown when the first of on_street_name,
\* off_street_name, cross_street_name that is listed has a code outside
\* 1..5, whatever the later streets are listed with
C20_InvalidCodeEndsLookup ==
    (AfterIntegrate \/ IntegrateFailed) =>
        LET given == BeforeIntegrate
        IN \A i \in 1..Len(given) :
              LET on == given[i]["on_street_name"]
                  off == given[i]["off_street_name"]
                  cross == given[i]["cross_street_name"]
              IN (/\ given[i]["borough"] = "Unknown"
                  /\ \/ ListedWithoutBorough(on)
                     \/ ~Listed(on) /\ ListedWithoutBorough(off)
                     \/ ~Listed(on) /\ ~Listed(off) /\ ListedWithoutBorough(cross))
                    => cleaned_collisions.rows[i]["borough"] = "Unknown"

\* on_street_name is listed with code 9 and off_street_name with code 2
\* (Bronx): the row stays Unknown
C20_Witness ==
    /\ AfterIntegrate
    /\ LET given == BeforeIntegrate
       IN \E i \in 1..Len(given) :
             /\ given[i]["borough"] = "Unknown"
             /\ Listed(given[i]["on_street_name"])
             /\ CodeOf(given[i]["on_street_name"]) = "9"
             /\ Listed(given[i]["off_street_name"])
             /\ CodeOf(given[i]["off_street_name"]) = "2"
             /\ cleaned_collisions.rows[i]["borough"] = "Unknown"

\* C21: integrate_street_names applied to the table it returned, with the
\* same mapping, returns without an error and changes no row
C21_SecondPassChangesNothing ==
    [][pc = "apply_second" =>
          /\ pc' = "applied_twice"
          /\ cleaned_collisions' = cleaned_collisions]_vars

\* both calls have returned for two rows that were Unknown: the first
\* call put the row without on_street_name in the Bronx and left the row
\* whose on_street_name has code 9 Unknown, and so they are after the
\* second call
C21_Witness ==
    /\ pc = "applied_twice"
    /\ LET given == BeforeIntegrate
       IN /\ Len(given) = 2
          /\ given[1]["borough"] = "Unknown"
          /\ given[1]["on_street_name"] = NaN
          /\ given[2]["borough"] = "Unknown"
          /\ Listed(given[2]["on_street_name"])
          /\ CodeOf(given[2]["on_street_name"]) = "9"
          /\ Listed(given[2]["off_street_name"])
          /\ cleaned_collisions.rows[1] = [given[1] EXCEPT !["borough"] = "Bronx"]
          /\ cleaned_collisions.rows[2] = given[2]
====
